---- MODULE Spec2Model ----
(***************************************************************************)
(* A model of src/src/graphqls2s.js: the resolution pipeline behind        *)
(* getSchemaAST and transpileSchema (parsed declarations, inheritance      *)
(* merge, interface closure, generic instantiation, rendering) and the     *)
(* process-wide memoization caches it shares between invocations.          *)
(*                                                                         *)
(* Strings that the code takes apart with regular expressions (type        *)
(* expressions such as [Paged<T>]! and declaration names such as Paged<T>) *)
(* are records  [open, base, args, close, bang]:  an optional leading '[', *)
(* the word before '<', the comma-separated words between '<' and '>', an  *)
(* optional ']' and the number of trailing '!'.  Two such strings are      *)
(* equal in the code iff the records are equal.  Dictionaries (JS objects  *)
(* used as maps) are sequences of [k, v] entries in insertion order, the   *)
(* order in which lodash iterates them.  A function that reads and writes  *)
(* a cache takes the cache as an argument and returns it with its result;  *)
(* a value the code binds once and reads several times (const r = f(...))  *)
(* is handed to a second operator as an argument.                          *)
(***************************************************************************)
EXTENDS Naturals, Sequences, FiniteSets, TLC

\* ------------------------------------------------------------------ bounds
\* Largest number of declarations in one schema text.
MaxDecls == 4
\* Depth of nested calls the engine's call stack holds before it throws
\* RangeError (Maximum call stack size exceeded).
MaxCallDepth == 6

\* ------------------------------------------------------------ JS strings
Str(open, base, args, close, bang) ==
    [open |-> open, base |-> base, args |-> args, close |-> close, bang |-> bang]

Plain(b) == Str(FALSE, b, <<>>, FALSE, 0)

EmptyStr == Plain("")

\* str + '!' repeated n times
WithBang(s, n) == [s EXCEPT !.bang = @ + n]

\* /!$/ : the string ends with '!'
EndsWithBang(s) == s.bang > 0

\* str.replace(/!$/, '') and str.replace('!', '') : one '!' less
DropOneBang(s) == [s EXCEPT !.bang = IF @ > 0 THEN @ - 1 ELSE 0]

RECURSIVE Join(_)
\* words.join('') : the concatenation of the words
Join(words) == IF words = <<>> THEN "" ELSE Head(words) \o Join(Tail(words))

\* ------------------------------------------------- JS objects used as maps
Has(m, k) == \E i \in 1..Len(m) : m[i].k = k

Get(m, k) == m[CHOOSE i \in 1..Len(m) : m[i].k = k].v

Put(m, k, v) ==
    IF Has(m, k)
    THEN [i \in 1..Len(m) |-> IF m[i].k = k THEN [k |-> k, v |-> v] ELSE m[i]]
    ELSE Append(m, [k |-> k, v |-> v])

Values(m) == [i \in 1..Len(m) |-> m[i].v]

\* ---------------------------------------------------- generic name alias
\* genericDefaultNameAlias: Paged<Product> -> PagedProduct.  The text is split
\* at the <...> match and only the part before it is kept: a ']' or '!' after
\* the '>' is dropped, a '[' before the name is kept.
genericDefaultNameAlias(genName) ==
    IF genName.args # <<>>
    THEN Str(genName.open, genName.base \o Join(genName.args), <<>>, FALSE, 0)
    ELSE genName

\* getAllAliases(metadata): the schemas of the model carry no metadata
\* annotation, so the list is empty; the first call replaces null by [].
getAllAliases(aliases) ==
    IF aliases.isNull THEN [isNull |-> FALSE, list |-> <<>>] ELSE aliases

\* getAliasName(genericType, metadata) with the memo threaded through:
\* [alias, gna, aliases]
getAliasName(genericType, gna, aliases) ==
    IF Has(gna, genericType)
    THEN [alias |-> Get(gna, genericType), gna |-> gna, aliases |-> aliases]
    ELSE LET alias == genericDefaultNameAlias(genericType)
         IN  [alias |-> alias,
              gna |-> Put(gna, genericType, alias),
              aliases |-> getAllAliases(aliases)]

\* ----------------------------------------------------------- isTypeGeneric
InSeq(x, s) == \E i \in 1..Len(s) : s[i] = x

\* isTypeGeneric(type, genericLetter): brackets and '!' are stripped first
isTypeGeneric(type, genericLetter) ==
    IF type.base = "" \/ genericLetter = <<>> THEN FALSE
    ELSE IF type.args = <<>> /\ Len(genericLetter) = 1 /\ type.base = genericLetter[1]
    THEN TRUE
    ELSE IF type.args # <<>>
    THEN \E i \in 1..Len(type.args) : InSeq(type.args[i], genericLetter)
    ELSE InSeq(type.base, genericLetter)

\* ------------------------------------------------- replaceGenericWithType
ArityError == "Invalid argument exception. Mismatch between the number of types in 'genericLetters' and 'concreteType'"
ArityError2 == "Invalid argument exception. Mismatch between the number of types in 'genericLetters' and 'genericType'"
MismatchError == "Invalid argument exception. Mismatch types between the 'genericType' and the allowed types 'genericLetters'"

\* the first i < cTypesLength with gLetters[i] == t, or 0
FirstLetter(t, gLetters, n) ==
    IF \E i \in 1..n : i <= Len(gLetters) /\ gLetters[i] = t
    THEN CHOOSE i \in 1..n : /\ i <= Len(gLetters) /\ gLetters[i] = t
                             /\ \A j \in 1..(i - 1) : gLetters[j] # t
    ELSE 0

\* replaceGenericWithType(genericType, genericLetters, concreteType):
\* [err, val]; cTypes is concreteType split at ','
replaceGenericWithType(gType, gLetters, cTypes) ==
    LET n == Len(cTypes)
        genericTypeIsArray == gType.open /\ gType.close
        endingChar == IF EndsWithBang(gType) THEN 1 ELSE 0
        wrap(base, args, inner) ==
            IF genericTypeIsArray
            THEN Str(TRUE, base, args, TRUE, endingChar)
            ELSE Str(gType.open, base, args, gType.close, inner + endingChar)
    IN
    IF Len(gLetters) # n THEN [err |-> ArityError, val |-> EmptyStr]
    ELSE IF Len(gLetters) = 1 /\ gType.args = <<>> /\ ~gType.open /\ ~gType.close
            /\ gType.base = gLetters[1]
    THEN [err |-> "", val |-> Str(FALSE, cTypes[1], <<>>, FALSE, endingChar)]
    ELSE IF gType.args # <<>>
    THEN IF Len(gType.args) # Len(gLetters)
         THEN [err |-> ArityError2, val |-> EmptyStr]
         ELSE IF \E i \in 1..Len(gType.args) : FirstLetter(gType.args[i], gLetters, n) = 0
         THEN [err |-> MismatchError, val |-> EmptyStr]
         ELSE [err |-> "",
               val |-> wrap(gType.base,
                            [i \in 1..Len(gType.args) |->
                                cTypes[FirstLetter(gType.args[i], gLetters, n)]],
                            0)]
    ELSE \* 'T' or '[T]': a '!' of a bare 'T!' is counted as isRequired and again as endingChar
         IF FirstLetter(gType.base, gLetters, n) = 0
         THEN [err |-> MismatchError, val |-> EmptyStr]
         ELSE [err |-> "",
               val |-> wrap(cTypes[FirstLetter(gType.base, gLetters, n)], <<>>,
                            IF ~genericTypeIsArray /\ EndsWithBang(gType) THEN 1 ELSE 0)]

\* ------------------------------------------------------------ parsing
\* The caches the parser writes: memoizedGenericNameAliases (gna),
\* memoizedGenericSchemaObjects (gso) and memoizedAliases (aliases).
ParseMem(gna, gso, aliases) == [gna |-> gna, gso |-> gso, aliases |-> aliases]

TypeDetails(originName, directive, isGen, dependsOnParent, genericParentTypes, name) ==
    [originName |-> originName, directive |-> directive, isGen |-> isGen,
     dependsOnParent |-> dependsOnParent, genericParentTypes |-> genericParentTypes,
     name |-> name]

\* if (result.isGen && !memoizedGenericSchemaObjects[result.name]) ... = result
RememberGeneric(gso, result) ==
    IF result.isGen /\ ~Has(gso, result.name) THEN Put(gso, result.name, result) ELSE gso

\* dependsOnParent of getTypeDetails: some argument between < and > is one of
\* the enclosing declaration's generic letters
DependsOnParent(t, genericParentTypes) ==
    /\ t.args # <<>>
    /\ genericParentTypes # <<>>
    /\ \E i \in 1..Len(t.args) : InSeq(t.args[i], genericParentTypes)

\* getTypeDetails for a generic type that does not depend on its parent: the
\* name is the alias a, followed by the '!' of the type
AliasedTypeDetails(result, a, gso) ==
    [td |-> result, mem |-> ParseMem(a.gna, RememberGeneric(gso, result), a.aliases)]

AliasedName(t, a) == WithBang(a.alias, IF EndsWithBang(t) THEN 1 ELSE 0)

TypeDetailsWithAlias(t, directive, genericParentTypes, a, gso) ==
    AliasedTypeDetails(
        TypeDetails(t, directive, TRUE, FALSE, genericParentTypes, AliasedName(t, a)), a, gso)

\* getTypeDetails for any other type: the name is the type as written
UnaliasedTypeDetails(result, mem) ==
    [td |-> result, mem |-> [mem EXCEPT !.gso = RememberGeneric(@, result)]]

\* getTypeDetails(t, metadata, genericParentTypes); t arrives as the type
\* expression and its trailing @directive.  [td, mem]
getTypeDetails(t, directive, genericParentTypes, mem) ==
    IF t.args # <<>> /\ ~DependsOnParent(t, genericParentTypes)
    THEN TypeDetailsWithAlias(t, directive, genericParentTypes,
                              getAliasName(t, mem.gna, mem.aliases), mem.gso)
    ELSE UnaliasedTypeDetails(
             TypeDetails(t, directive, t.args # <<>>,
                         DependsOnParent(t, genericParentTypes), genericParentTypes, t),
             mem)

\* A parameter 'filter: Filtered<T>' as the text the code compares, and a
\* generic letter as text: a parameter always starts with its name and ':'.
ParamText(p) == [pname |-> p.pname, type |-> p.type]

LetterText(y) == [pname |-> "", type |-> Plain(y)]

\* dependsOnParent of getTranspiledParams: genericTypes is the list of whole
\* parameters (genTypes), not the arguments between < and >
ParamDependsOnParent(params, i, genericParentTypes) ==
    /\ params[i].type.args # <<>>
    /\ genericParentTypes # <<>>
    /\ \E x \in 1..Len(params) : \E y \in 1..Len(genericParentTypes) :
           ParamText(params[x]) = LetterText(genericParentTypes[y])

\* One parameter of getTranspiledParams: [td, mem]; the entry it records has
\* no dependsOnParent, genericParentTypes or directive property
TranspiledParam(originName, dependsOnParent, mem) ==
    IF originName.args # <<>> /\ ~dependsOnParent
    THEN TypeDetailsWithAlias(originName, "", <<>>,
                              getAliasName(originName, mem.gna, mem.aliases), mem.gso)
    ELSE UnaliasedTypeDetails(
             TypeDetails(originName, "", originName.args # <<>>, FALSE, <<>>, originName),
             mem)

RECURSIVE TranspileParams(_, _, _, _, _)
TranspileParamsNext(params, i, genericParentTypes, r, acc) ==
    TranspileParams(params, i + 1, genericParentTypes, r.mem,
                    Append(acc, [pname |-> params[i].pname, type |-> r.td.name]))

\* getTranspiledParams(params, genericParentTypes): [params, mem]
TranspileParams(params, i, genericParentTypes, mem, acc) ==
    IF i > Len(params) THEN [params |-> acc, mem |-> mem]
    ELSE TranspileParamsNext(params, i, genericParentTypes,
             TranspiledParam(params[i].type,
                             ParamDependsOnParent(params, i, genericParentTypes), mem),
             acc)

getTranspiledParams(params, genericParentTypes, mem) ==
    TranspileParams(params, 1, genericParentTypes, mem, <<>>)

\* getPropertyValue({ name, params, result }): the rendered property
\* name[(params)][: result.name[ result.directive]]
getPropertyValue(details) ==
    [name |-> details.name,
     params |-> details.params,
     right |-> details.result.name,
     directive |-> IF details.result.name.base # "" THEN details.result.directive ELSE ""]

\* { comments, details, value: getPropertyValue(details) }
BlockProp(comments, details) ==
    [comments |-> comments, details |-> details, value |-> getPropertyValue(details)]

RECURSIVE BlockProperties(_, _, _, _, _)
BlockPropertiesNext(blockParts, i, genericTypes, params, r, acc) ==
    BlockProperties(blockParts, i + 1, genericTypes, r.mem,
        Append(acc, BlockProp(blockParts[i].comments,
                              [name |-> blockParts[i].name, params |-> params,
                               result |-> r.td])))

BlockPropertiesResult(blockParts, i, genericTypes, ps, acc) ==
    BlockPropertiesNext(blockParts, i, genericTypes, ps.params,
        getTypeDetails(blockParts[i].type, blockParts[i].directive, genericTypes, ps.mem),
        acc)

\* getBlockProperties(blockParts, baseObj, metadata): [props, mem]
BlockProperties(blockParts, i, genericTypes, mem, acc) ==
    IF i > Len(blockParts) THEN [props |-> acc, mem |-> mem]
    ELSE BlockPropertiesResult(blockParts, i, genericTypes,
             IF blockParts[i].params # <<>>
             THEN getTranspiledParams(blockParts[i].params, genericTypes, mem)
             ELSE [params |-> <<>>, mem |-> mem],
             acc)

getBlockProperties(blockParts, genericTypes, mem) ==
    BlockProperties(blockParts, 1, genericTypes, mem, <<>>)

\* typeName.toUpperCase()
objectType(typeName) ==
    CASE typeName = "type" -> "TYPE"
      [] typeName = "input" -> "INPUT"
      [] typeName = "enum" -> "ENUM"
      [] typeName = "interface" -> "INTERFACE"
      [] typeName = "abstract" -> "ABSTRACT"

\* getSchemaObject for one declaration, given its block properties.  A missing list
\* (null) is the empty sequence, a missing directive or comment the empty
\* string; originalBlockProps and comments are not set yet.
getSchemaObject(d, blockProps) ==
    [type |-> objectType(d.kind),
     extend |-> d.extend,
     name |-> Str(FALSE, d.name, d.generic, FALSE, 0),
     directive |-> d.directive,
     genericType |-> d.generic,
     blockProps |-> blockProps,
     originalBlockProps |-> <<>>,
     inherits |-> d.inherits,
     implements |-> d.implements,
     comments |-> ""]

OfKind(sch, kind) == SelectSeq(sch, LAMBDA d : d.kind = kind)

\* [getInterfaces, getAbstracts, getTypes, getInputs, getEnums]: the parsed
\* declarations kind by kind, each kind in the order of the text
KindOrder(sch) ==
    OfKind(sch, "interface") \o OfKind(sch, "abstract") \o OfKind(sch, "type")
        \o OfKind(sch, "input") \o OfKind(sch, "enum")

RECURSIVE SchemaObjects(_, _, _, _)
SchemaObjectsNext(ds, i, b, acc) ==
    SchemaObjects(ds, i + 1, b.mem, Append(acc, getSchemaObject(ds[i], b.props)))

\* getSchemaObject over the declarations: [objs, mem]
SchemaObjects(ds, i, mem, acc) ==
    IF i > Len(ds) THEN [objs |-> acc, mem |-> mem]
    ELSE SchemaObjectsNext(ds, i, getBlockProperties(ds[i].block, ds[i].generic, mem), acc)

\* firstSchemaBreakDown of getSchemaParts: [objs, mem]
firstSchemaBreakDown(sch, mem) == SchemaObjects(KindOrder(sch), 1, mem, <<>>)

\* --------------------------------------------------------- resolution
RangeError == "RangeError: Maximum call stack size exceeded"

\* an argument the caller leaves out (undefined), or the list it passes
Undefined == [defined |-> FALSE, list |-> <<>>]

Defined(list) == [defined |-> TRUE, list |-> list]

RECURSIVE Uniq(_, _, _)
\* _.uniq: the first occurrence of each element, in order
Uniq(s, i, acc) ==
    IF i > Len(s) THEN acc
    ELSE Uniq(s, i + 1, IF InSeq(s[i], acc) THEN acc ELSE Append(acc, s[i]))

NamedObjects(schemaObjects, n) == SelectSeq(schemaObjects, LAMBDA x : x.name = Plain(n))

InterfaceMissing(i) == <<"Schema error: interface is not defined.", i>>

NotAnInterface(i) == <<"Schema error: Schema property is not an interface. It cannot be implemented.", i>>

NoError == <<>>

RECURSIVE getInterfaceWithAncestors(_, _, _, _)
RECURSIVE InterfacesWithAncestors(_, _, _, _, _, _)
InterfacesWithAncestorsNext(names, i, schemaObjects, r, depth, acc) ==
    IF r.err # NoError THEN [err |-> r.err, val |-> <<>>, iwa |-> r.iwa]
    ELSE InterfacesWithAncestors(names, i + 1, schemaObjects, r.iwa, depth, acc \o r.val)

\* implements.map(i => getInterfaceWithAncestors(i, schemaObjects)), flattened:
\* [err, val, iwa]
InterfacesWithAncestors(names, i, schemaObjects, iwa, depth, acc) ==
    IF i > Len(names) THEN [err |-> NoError, val |-> acc, iwa |-> iwa]
    ELSE InterfacesWithAncestorsNext(names, i, schemaObjects,
             getInterfaceWithAncestors(names[i], schemaObjects, iwa, depth), depth, acc)

\* memoizedInterfaceWithAncestors[_interface] = interfaceWithAncestors
RememberInterface(_interface, interfaceWithAncestors, iwa) ==
    [err |-> NoError, val |-> interfaceWithAncestors,
     iwa |-> Put(iwa, _interface, interfaceWithAncestors)]

\* the closure of an interface that implements others, from the closures r of
\* those; the memo entry is written after the recursive calls have returned
InterfaceWithAncestors(_interface, interfaceObj, r) ==
    IF r.err # NoError THEN r
    ELSE RememberInterface(_interface,
             Uniq(<<_interface>> \o interfaceObj.implements \o r.val, 1, <<>>), r.iwa)

\* getInterfaceWithAncestors below its memo check, found being the
\* declarations named _interface
InterfaceObjWithAncestors(_interface, found, schemaObjects, iwa, depth) ==
    IF found = <<>>
    THEN [err |-> InterfaceMissing(_interface), val |-> <<>>, iwa |-> iwa]
    ELSE IF found[1].type # "INTERFACE"
    THEN [err |-> NotAnInterface(_interface), val |-> <<>>, iwa |-> iwa]
    ELSE IF found[1].implements = <<>>
    THEN RememberInterface(_interface, <<_interface>>, iwa)
    ELSE InterfaceWithAncestors(_interface, found[1],
             InterfacesWithAncestors(found[1].implements, 1, schemaObjects, iwa,
                                     depth + 1, <<>>))

\* getInterfaceWithAncestors(_interface, schemaObjects) with the memo
\* memoizedInterfaceWithAncestors (iwa) threaded through: [err, val, iwa]
getInterfaceWithAncestors(_interface, schemaObjects, iwa, depth) ==
    IF depth > MaxCallDepth THEN [err |-> <<RangeError>>, val |-> <<>>, iwa |-> iwa]
    ELSE IF Has(iwa, _interface)
    THEN [err |-> NoError, val |-> Get(iwa, _interface), iwa |-> iwa]
    ELSE InterfaceObjWithAncestors(_interface, NamedObjects(schemaObjects, _interface),
                                   schemaObjects, iwa, depth)

\* The object getObjWithInterfaces builds from the closures r: it has no
\* extend, directive or comments property.
ObjWithInterfaces(obj, r) ==
    IF r.err # NoError THEN [err |-> r.err, obj |-> obj, iwa |-> r.iwa]
    ELSE [err |-> NoError,
          obj |-> [type |-> obj.type,
                   extend |-> FALSE,
                   name |-> obj.name,
                   directive |-> "",
                   genericType |-> obj.genericType,
                   blockProps |-> obj.blockProps,
                   originalBlockProps |-> obj.blockProps,
                   inherits |-> obj.inherits,
                   implements |-> Uniq(r.val, 1, <<>>),
                   comments |-> ""],
          iwa |-> r.iwa]

\* getObjWithInterfaces(obj, schemaObjects): [err, obj, iwa]
getObjWithInterfaces(obj, schemaObjects, iwa, depth) ==
    IF schemaObjects.defined /\ obj.implements # <<>>
    THEN ObjWithInterfaces(obj,
             InterfacesWithAncestors(obj.implements, 1, schemaObjects.list, iwa,
                                     depth + 1, <<>>))
    ELSE [err |-> NoError, obj |-> obj, iwa |-> iwa]

\* inheritingIsAllowed(obj, subClass)
inheritingIsAllowed(obj, subClass) ==
    IF obj.type = "TYPE"
    THEN subClass.type = "TYPE" \/ subClass.type = "INTERFACE"
    ELSE obj.type = subClass.type

CannotFindInherited(obj, c) == <<"Schema error: cannot find inherited", obj.type, obj.name.base, c>>

CannotInherit(obj, subClass) ==
    <<"Schema error: cannot inherit from", obj.type, obj.name.base, subClass.type, subClass.name.base>>

\* `${obj.type}_${obj.name}_${obj.genericType}`
ExtendedKey(obj) == <<obj.type, obj.name, obj.genericType>>

RECURSIVE Flatten(_)
Flatten(ss) == IF ss = <<>> THEN <<>> ELSE Head(ss) \o Flatten(Tail(ss))

\* schemaObjects.filter(x => obj.inherits.indexOf(x.name) > -1): the inherited
\* declarations in the order of schemaObjects
SuperClass(obj, schemaObjects) ==
    SelectSeq(schemaObjects,
              LAMBDA x : \E j \in 1..Len(obj.inherits) : x.name = Plain(obj.inherits[j]))

\* _.difference(obj.inherits, superClassNames)
MissingClasses(obj, schemaObjects) ==
    SelectSeq(obj.inherits, LAMBDA c : NamedObjects(schemaObjects, c) = <<>>)

\* objWithInheritance.  The resolved ancestors kept in 'inherits' are
\* represented by their names.
ObjWithInheritance(obj, superClassesWithInheritance) ==
    [type |-> obj.type,
     extend |-> FALSE,
     name |-> obj.name,
     directive |-> obj.directive,
     genericType |-> obj.genericType,
     blockProps |-> Flatten([j \in 1..Len(superClassesWithInheritance) |->
                                superClassesWithInheritance[j].blockProps])
                        \o obj.blockProps,
     originalBlockProps |-> obj.blockProps,
     inherits |-> [j \in 1..Len(superClassesWithInheritance) |->
                      superClassesWithInheritance[j].name.base],
     implements |-> Uniq(obj.implements, 1, <<>>),
     comments |-> ""]

RECURSIVE getObjWithExtensions(_, _, _, _, _)
RECURSIVE SuperClassesWithInheritance(_, _, _, _, _, _, _, _)
SuperClassesWithInheritanceNext(obj, superClass, i, schemaObjects, r, depth, acc) ==
    IF r.err # NoError
    THEN [err |-> r.err, objs |-> acc, ext |-> r.ext, iwa |-> r.iwa]
    ELSE SuperClassesWithInheritance(obj, superClass, i + 1, schemaObjects,
                                     r.ext, r.iwa, depth, Append(acc, r.obj))

\* superClass.map(subClass => ...): [err, objs, ext, iwa]
SuperClassesWithInheritance(obj, superClass, i, schemaObjects, ext, iwa, depth, acc) ==
    IF i > Len(superClass) THEN [err |-> NoError, objs |-> acc, ext |-> ext, iwa |-> iwa]
    ELSE IF ~inheritingIsAllowed(obj, superClass[i])
    THEN [err |-> CannotInherit(obj, superClass[i]), objs |-> acc, ext |-> ext, iwa |-> iwa]
    ELSE SuperClassesWithInheritanceNext(obj, superClass, i, schemaObjects,
             getObjWithExtensions(superClass[i], schemaObjects, ext, iwa, depth),
             depth, acc)

\* the result of getObjWithInterfaces, with the caches
WithInterfaces(r, ext) == [err |-> r.err, obj |-> r.obj, ext |-> ext, iwa |-> r.iwa]

\* memoizedExtendedObject[key] = objWithInheritance;
\* return getObjWithInterfaces(objWithInheritance, schemaObjects)
RememberExtended(key, objWithInheritance, schemaObjects, ext, iwa, depth) ==
    WithInterfaces(
        getObjWithInterfaces(objWithInheritance, Defined(schemaObjects), iwa, depth),
        Put(ext, key, objWithInheritance))

\* getObjWithExtensions from the resolved super classes s on
ExtendedObject(obj, schemaObjects, s, depth) ==
    IF s.err # NoError
    THEN [err |-> s.err, obj |-> obj, ext |-> s.ext, iwa |-> s.iwa]
    ELSE RememberExtended(ExtendedKey(obj), ObjWithInheritance(obj, s.objs),
                          schemaObjects, s.ext, s.iwa, depth)

\* getObjWithExtensions(obj, schemaObjects) with memoizedExtendedObject (ext)
\* and memoizedInterfaceWithAncestors (iwa) threaded through: [err, obj, ext, iwa]
getObjWithExtensions(obj, schemaObjects, ext, iwa, depth) ==
    IF depth > MaxCallDepth
    THEN [err |-> <<RangeError>>, obj |-> obj, ext |-> ext, iwa |-> iwa]
    ELSE IF obj.inherits = <<>>
    THEN WithInterfaces(getObjWithInterfaces(obj, Undefined, iwa, depth), ext)
    ELSE IF Has(ext, ExtendedKey(obj))
    THEN [err |-> NoError, obj |-> Get(ext, ExtendedKey(obj)), ext |-> ext, iwa |-> iwa]
    ELSE IF MissingClasses(obj, schemaObjects) # <<>>
    THEN [err |-> CannotFindInherited(obj, MissingClasses(obj, schemaObjects)[1]),
          obj |-> obj, ext |-> ext, iwa |-> iwa]
    ELSE ExtendedObject(obj, schemaObjects,
             SuperClassesWithInheritance(obj, SuperClass(obj, schemaObjects), 1,
                                         schemaObjects, ext, iwa, depth + 1, <<>>),
             depth)

\* ------------------------------------------------------------ comments
\* getSchemaEntity(firstLine): the kind and the name of the header below a
\* comment block; the line must start with type, enum, input or interface
getSchemaEntity(d) ==
    IF ~d.extend /\ d.kind \in {"type", "enum", "input", "interface"}
    THEN [type |-> objectType(d.kind), name |-> Str(FALSE, d.name, d.generic, FALSE, 0)]
    ELSE [type |-> "null", name |-> EmptyStr]

\* getCommentsBits(sch): the comment blocks that touch a declaration header
getCommentsBits(sch) ==
    LET commented == SelectSeq(sch, LAMBDA d : d.comments # "")
    IN  [i \in 1..Len(commented) |->
            [text |-> commented[i].comments, property |-> getSchemaEntity(commented[i])]]

\* addComments(obj, comments)
addComments(obj, comments) ==
    LET mine == SelectSeq(comments, LAMBDA c : c.property.type = obj.type
                                                /\ c.property.name = obj.name)
    IN  [obj EXCEPT !.comments = IF mine = <<>> THEN "" ELSE mine[1].text]

\* ----------------------------------------------------------- rendering
\* type.toLowerCase()
toLowerCase(type) ==
    CASE type = "TYPE" -> "type"
      [] type = "INPUT" -> "input"
      [] type = "ENUM" -> "enum"
      [] type = "INTERFACE" -> "interface"
      [] type = "ABSTRACT" -> "abstract"

\* parseSchemaObjToString(comments, type, name, _implements, blockProps, extend,
\* directive): the text of one declaration, kept as its parts in order:
\* comments, 'extend ', keyword, name without its first '!', the implements
\* list, the directive (written only in front of a non-empty block), the
\* properties.
parseSchemaObjToString(comments, type, name, _implements, blockProps, extend, directive) ==
    [comments |-> comments,
     extend |-> extend,
     keyword |-> toLowerCase(type),
     name |-> DropOneBang(name),
     implements |-> _implements,
     directive |-> IF blockProps # <<>> THEN directive ELSE "",
     block |-> [i \in 1..Len(blockProps) |->
                   [comments |-> blockProps[i].comments, value |-> blockProps[i].value]]]

\* ------------------------------------------------- generic instantiation
CannotFindGeneric(originName) ==
    <<"Schema error: Cannot find any definition for generic type starting with", originName.base>>

NotGeneric(name) == <<"Schema error: Schema object is not generic!", name.base>>

\* schemaBreakDown.find(x => x.name.indexOf(genObjName) == 0) with genObjName
\* the text up to and including the first '<' of originName
BaseGenObjs(originName, schemaBreakDown) ==
    SelectSeq(schemaBreakDown,
              LAMBDA x : /\ ~originName.open
                         /\ x.name.args # <<>>
                         /\ x.name.base = originName.base)

NoResult == [obj |-> [type |-> "null"], stringObj |-> [keyword |-> "null"]]

\* details of a property whose type is one of the template's letters.
\* params: prop.params, originName: prop.details.originName and
\* isGen: prop.details.isGen are read where nothing is stored.
ReplacedDetails(prop, name) ==
    [name |-> prop.details.name,
     params |-> <<>>,
     result |-> TypeDetails(EmptyStr, "", FALSE, FALSE, <<>>, name)]

\* propTypeName: the property's type without its last '!'
PropTypeName(prop) == DropOneBang(prop.details.result.name)

\* propTypeName.match(/^\[.*\]$/)
PropTypeIsArray(prop) ==
    PropTypeName(prop).open /\ PropTypeName(prop).close /\ PropTypeName(prop).bang = 0

\* concretePropType: originalConcretePropType without its array brackets
ConcretePropType(prop, originalConcretePropType) ==
    IF PropTypeIsArray(prop)
    THEN [originalConcretePropType EXCEPT !.open = FALSE, !.close = FALSE]
    ELSE originalConcretePropType

\* originalConcretePropTypeName: [name] if the property is an array, '!' if
\* it is required
OriginalConcretePropTypeName(prop, concreteGenPropName) ==
    WithBang(IF PropTypeIsArray(prop)
             THEN [concreteGenPropName EXCEPT !.open = TRUE, !.close = TRUE]
             ELSE concreteGenPropName,
             IF EndsWithBang(prop.details.result.name) THEN 1 ELSE 0)

\* details of a property whose type is a generic type applied to the
\* template's letters; the directive is appended to the name text itself
DependentDetails(prop, concreteGenPropName) ==
    [name |-> prop.details.name,
     params |-> <<>>,
     result |-> TypeDetails(prop.details.result.name, prop.details.result.directive,
                            TRUE, FALSE, <<>>,
                            OriginalConcretePropTypeName(prop, concreteGenPropName))]

RECURSIVE createNewSchemaObjectFromGeneric(_, _, _, _, _)
RECURSIVE GenericBlockProps(_, _, _, _, _, _, _, _)
\* the property p is mapped; on to the next one
GenericBlockPropsNext(baseGenObj, cTypes, i, schemaBreakDown, memo, mem, depth, acc, p) ==
    GenericBlockProps(baseGenObj, cTypes, i + 1, schemaBreakDown, memo, mem, depth,
                      Append(acc, p))

\* rec is what the nested createNewSchemaObjectFromGeneric returned
ConcreteGenPropName(baseGenObj, cTypes, i, schemaBreakDown, depth, acc, rec) ==
    IF rec.err # NoError
    THEN [err |-> rec.err, props |-> acc, memo |-> rec.memo, mem |-> rec.mem]
    ELSE GenericBlockPropsNext(baseGenObj, cTypes, i, schemaBreakDown, rec.memo, rec.mem,
             depth, acc,
             BlockProp(baseGenObj.blockProps[i].comments,
                       DependentDetails(baseGenObj.blockProps[i], rec.res.obj.name)))

\* concreteGenProp is what getTypeDetails(concretePropType) returned
ConcreteGenProp(baseGenObj, cTypes, i, schemaBreakDown, memo, depth, acc, concreteGenProp) ==
    ConcreteGenPropName(baseGenObj, cTypes, i, schemaBreakDown, depth, acc,
        createNewSchemaObjectFromGeneric(concreteGenProp.td, schemaBreakDown, memo,
                                         concreteGenProp.mem, depth + 1))

\* r2 is what replaceGenericWithType(propTypeName, genericParentTypes,
\* concreteType) returned
OriginalConcretePropType(baseGenObj, cTypes, i, schemaBreakDown, memo, mem, depth, acc, r2) ==
    IF r2.err # ""
    THEN [err |-> <<r2.err>>, props |-> acc, memo |-> memo, mem |-> mem]
    ELSE ConcreteGenProp(baseGenObj, cTypes, i, schemaBreakDown, memo, depth, acc,
             getTypeDetails(ConcretePropType(baseGenObj.blockProps[i], r2.val), "", <<>>,
                            mem))

\* r1 is what replaceGenericWithType(prop.details.result.name, genericType,
\* concreteType) returned
ReplacedProp(baseGenObj, cTypes, i, schemaBreakDown, memo, mem, depth, acc, r1) ==
    IF r1.err # ""
    THEN [err |-> <<r1.err>>, props |-> acc, memo |-> memo, mem |-> mem]
    ELSE IF ~baseGenObj.blockProps[i].details.result.dependsOnParent
    THEN GenericBlockPropsNext(baseGenObj, cTypes, i, schemaBreakDown, memo, mem, depth,
             acc,
             BlockProp(baseGenObj.blockProps[i].comments,
                       ReplacedDetails(baseGenObj.blockProps[i], r1.val)))
    ELSE OriginalConcretePropType(baseGenObj, cTypes, i, schemaBreakDown, memo, mem,
             depth, acc,
             replaceGenericWithType(PropTypeName(baseGenObj.blockProps[i]),
                 baseGenObj.blockProps[i].details.result.genericParentTypes, cTypes))

\* baseGenObj.blockProps.map(prop => ...): [err, props, memo, mem]
GenericBlockProps(baseGenObj, cTypes, i, schemaBreakDown, memo, mem, depth, acc) ==
    IF i > Len(baseGenObj.blockProps)
    THEN [err |-> NoError, props |-> acc, memo |-> memo, mem |-> mem]
    ELSE IF ~isTypeGeneric(baseGenObj.blockProps[i].details.result.name,
                           baseGenObj.genericType)
    THEN GenericBlockPropsNext(baseGenObj, cTypes, i, schemaBreakDown, memo, mem, depth,
                               acc, baseGenObj.blockProps[i])
    ELSE ReplacedProp(baseGenObj, cTypes, i, schemaBreakDown, memo, mem, depth, acc,
             replaceGenericWithType(baseGenObj.blockProps[i].details.result.name,
                                    baseGenObj.genericType, cTypes))

\* { obj: {...}, stringObj: newSchemaObjStr }
NewSchemaObject(name, baseGenObj, blockProps) ==
    [obj |-> [type |-> baseGenObj.type,
              extend |-> FALSE,
              name |-> name,
              directive |-> "",
              genericType |-> <<>>,
              blockProps |-> blockProps,
              originalBlockProps |-> <<>>,
              inherits |-> <<>>,
              implements |-> baseGenObj.implements,
              comments |-> baseGenObj.comments],
     stringObj |-> parseSchemaObjToString(baseGenObj.comments, baseGenObj.type, name,
                       baseGenObj.implements, blockProps, FALSE, "")]

\* memoizedNewSchemaObjectFromGeneric[name] = result; return result
RememberNew(name, result, memo, mem) ==
    [err |-> NoError, res |-> result, memo |-> Put(memo, name, result), mem |-> mem]

\* b is what mapping the template's properties returned; memo[name] is
\* written after the properties have been mapped
NewFromBlockProps(td, baseGenObj, b) ==
    IF b.err # NoError
    THEN [err |-> b.err, res |-> NoResult, memo |-> b.memo, mem |-> b.mem]
    ELSE RememberNew(td.name, NewSchemaObject(td.name, baseGenObj, b.props), b.memo, b.mem)

\* found holds the declarations whose name starts with genObjName
NewFromBaseGenObj(td, found, schemaBreakDown, memo, mem, depth) ==
    IF found = <<>>
    THEN [err |-> CannotFindGeneric(td.originName), res |-> NoResult,
          memo |-> memo, mem |-> mem]
    ELSE IF found[1].genericType = <<>>
    THEN [err |-> NotGeneric(found[1].name), res |-> NoResult, memo |-> memo, mem |-> mem]
    ELSE NewFromBlockProps(td, found[1],
             GenericBlockProps(found[1], td.originName.args, 1, schemaBreakDown, memo, mem,
                               depth, <<>>))

\* createNewSchemaObjectFromGeneric({ originName, isGen, name }, schemaBreakDown,
\* memoizedNewSchemaObjectFromGeneric): [err, res, memo, mem], mem being the
\* parser's caches, which the nested getTypeDetails writes
createNewSchemaObjectFromGeneric(td, schemaBreakDown, memo, mem, depth) ==
    IF depth > MaxCallDepth
    THEN [err |-> <<RangeError>>, res |-> NoResult, memo |-> memo, mem |-> mem]
    ELSE IF td.isGen /\ Has(memo, td.name)
    THEN [err |-> NoError, res |-> Get(memo, td.name), memo |-> memo, mem |-> mem]
    ELSE IF td.isGen
    THEN NewFromBaseGenObj(td, BaseGenObjs(td.originName, schemaBreakDown),
                           schemaBreakDown, memo, mem, depth)
    ELSE [err |-> NoError, res |-> NoResult, memo |-> memo, mem |-> mem]

\* ------------------------------------------------------- the pipeline
\* The six module-level caches as one value:
\*   s        _s                              (escapeGraphQlSchemaPlus)
\*   gso      memoizedGenericSchemaObjects
\*   ext      memoizedExtendedObject
\*   iwa      memoizedInterfaceWithAncestors
\*   gna      memoizedGenericNameAliases
\*   aliases  memoizedAliases
EmptyCaches ==
    [s |-> <<>>, gso |-> <<>>, ext |-> <<>>, iwa |-> <<>>, gna |-> <<>>,
     aliases |-> [isNull |-> TRUE, list |-> <<>>]]

\* a resetMemory without the line  memoizedExtendedObject = {}
resetMemoryKeepingExtended(mem) == [EmptyCaches EXCEPT !.ext = mem.ext]

\* resetMemory()
resetMemory(mem) == EmptyCaches

\* The schema text as written, and the text getSchemaBits derives from it with
\* the comments removed, a blank in front and a line break behind.
RawText(sch) == [decls |-> sch, padded |-> FALSE]

WithoutComments(sch) ==
    [decls |-> [i \in 1..Len(sch) |-> [sch[i] EXCEPT !.comments = ""]], padded |-> TRUE]

\* escapeGraphQlSchema(sch, cr, t) of ./utilities: line breaks and tabs
\* replaced by the markers, a text distinct from its argument
escapeGraphQlSchema(text) == [escaped |-> text]

\* escapeGraphQlSchemaPlus(sch, cr, t): [val, s]
escapeGraphQlSchemaPlus(text, s) ==
    IF Has(s, text) THEN [val |-> Get(s, text), s |-> s]
    ELSE [val |-> escapeGraphQlSchema(text), s |-> Put(s, text, escapeGraphQlSchema(text))]

\* the fragments matched in escapedSchemaWithComments, and _s after
\* schemaWithoutComments has gone through the escaper too
SchemaBits(escapedSchemaWithComments, escapedSchemaWithoutComments) ==
    [bits |-> escapedSchemaWithComments.val.escaped.decls,
     s |-> escapedSchemaWithoutComments.s]

EscapedSchemaWithoutComments(sch, escapedSchemaWithComments) ==
    SchemaBits(escapedSchemaWithComments,
               escapeGraphQlSchemaPlus(WithoutComments(sch), escapedSchemaWithComments.s))

\* getSchemaBits(sch): the declaration fragments of the escaped text; both the
\* text and its comment-free form pass through the escaper.  [bits, s]
getSchemaBits(sch, s) ==
    EscapedSchemaWithoutComments(sch, escapeGraphQlSchemaPlus(RawText(sch), s))

\* the caches after the parser has run on them
WithParseMem(mem, pm) ==
    [mem EXCEPT !.gna = pm.gna, !.gso = pm.gso, !.aliases = pm.aliases]

ParsedObjects(mem, s, f) == [objs |-> f.objs, mem |-> [WithParseMem(mem, f.mem) EXCEPT !.s = s]]

ParsedBits(mem, b) ==
    ParsedObjects(mem, b.s,
                  firstSchemaBreakDown(b.bits, ParseMem(mem.gna, mem.gso, mem.aliases)))

\* The first two steps of getSchemaParts: [objs, mem]
ParseSchema(sch, mem) == ParsedBits(mem, getSchemaBits(sch, mem.s))

\* _(memoizedGenericSchemaObjects).filter(x => !x.dependsOnParent)
ConcreteGenerics(gso) == SelectSeq(Values(gso), LAMBDA x : ~x.dependsOnParent)

Instantiated(mem, r) == [err |-> r.err, memo |-> r.memo, mem |-> WithParseMem(mem, r.mem)]

\* One step of .forEach(value => createNewSchemaObjectFromGeneric(value, v,
\* resolvedGenericTypes)): [err, memo, mem]
InstantiateOne(value, schemaObjs, resolvedGenericTypes, mem) ==
    Instantiated(mem,
        createNewSchemaObjectFromGeneric(value, schemaObjs, resolvedGenericTypes,
            ParseMem(mem.gna, mem.gso, mem.aliases), 1))

\* part_01 of buildSchemaString
Part01(kept) ==
    [i \in 1..Len(kept) |->
        parseSchemaObjToString(kept[i].comments, kept[i].type, kept[i].name,
            kept[i].implements, kept[i].blockProps, kept[i].extend, kept[i].directive)]

\* part_02 of buildSchemaString
Part02(resolvedGenericTypes) ==
    [i \in 1..Len(resolvedGenericTypes) |-> resolvedGenericTypes[i].v.stringObj]

\* buildSchemaString(schemaObjs): part_01 followed by part_02, as the sequence
\* of rendered declarations (the schemas of the model carry no directive body)
buildSchemaString(schemaObjs, resolvedGenericTypes) ==
    Part01(SelectSeq(schemaObjs, LAMBDA x : /\ x.genericType = <<>>
                                            /\ x.type # "ABSTRACT"
                                            /\ x.type # "DIRECTIVE"))
        \o Part02(resolvedGenericTypes)

\* getSchemaParts(..., includeNewGenTypes = true): v.concat(the new objects)
WithNewGenTypes(v, resolvedGenericTypes) ==
    v \o [i \in 1..Len(resolvedGenericTypes) |-> resolvedGenericTypes[i].v.obj]

Outcome(status, value, error) == [status |-> status, value |-> value, error |-> error]

NoOutcome == Outcome("none", <<>>, NoError)

\* what getSchemaAST (m = "ast") and transpileSchema (m = "text") return
Value(m, v, resolvedGenericTypes) ==
    Outcome("value",
            IF m = "ast" THEN WithNewGenTypes(v, resolvedGenericTypes)
            ELSE buildSchemaString(v, resolvedGenericTypes),
            NoError)

\* ------------------------------------------ one invocation, start to end
RECURSIVE ResolveAll(_, _, _, _, _)
ResolveAllNext(objs, i, r, acc) ==
    IF r.err # NoError
    THEN [err |-> r.err, v |-> acc, ext |-> r.ext, iwa |-> r.iwa]
    ELSE ResolveAll(objs, i + 1, r.ext, r.iwa, Append(acc, r.obj))

\* firstSchemaBreakDown.map(obj => getObjWithExtensions(obj, firstSchemaBreakDown)):
\* [err, v, ext, iwa]
ResolveAll(objs, i, ext, iwa, acc) ==
    IF i > Len(objs) THEN [err |-> NoError, v |-> acc, ext |-> ext, iwa |-> iwa]
    ELSE ResolveAllNext(objs, i, getObjWithExtensions(objs[i], objs, ext, iwa, 1), acc)

RECURSIVE InstantiateAll(_, _, _, _, _)
InstantiateAllNext(values, i, schemaObjs, r) ==
    IF r.err # NoError THEN r
    ELSE InstantiateAll(values, i + 1, schemaObjs, r.memo, r.mem)

\* .forEach(value => createNewSchemaObjectFromGeneric(value, v, resolvedGenericTypes)):
\* [err, memo, mem]
InstantiateAll(values, i, schemaObjs, memo, mem) ==
    IF i > Len(values) THEN [err |-> NoError, memo |-> memo, mem |-> mem]
    ELSE InstantiateAllNext(values, i, schemaObjs,
                            InstantiateOne(values[i], schemaObjs, memo, mem))

\* .map(obj => addComments(obj, getCommentsBits(graphQlSchema)))
WithComments(v, bits) == [i \in 1..Len(v) |-> addComments(v[i], getCommentsBits(bits))]

InvocationValue(m, v, g) ==
    IF g.err # NoError THEN Outcome("error", <<>>, g.err)
    ELSE Value(m, v, g.memo)

InvocationGenerics(m, v, mem) ==
    InvocationValue(m, v, InstantiateAll(ConcreteGenerics(mem.gso), 1, v, <<>>, mem))

InvocationResolved(sch, m, mem, r) ==
    IF r.err # NoError THEN Outcome("error", <<>>, r.err)
    ELSE InvocationGenerics(m, WithComments(r.v, sch), mem)

InvocationParsed(sch, m, p) ==
    InvocationResolved(sch, m, p.mem, ResolveAll(p.objs, 1, p.mem.ext, p.mem.iwa, <<>>))

\* graphqls2s.getSchemaAST (m = "ast") and graphqls2s.transpileSchema
\* (m = "text") run in one piece on the caches mem: what the caller gets
RunInvocation(sch, m, mem) == InvocationParsed(sch, m, ParseSchema(sch, resetMemory(mem)))

\* -------------------------------------------------------- schema texts
\* A schema text is the sequence of its declarations as written; a property
\* line is  [# comments] name[(params)]: type [@directive].
Prop(name, type) ==
    [name |-> name, params |-> <<>>, type |-> type, directive |-> "", comments |-> ""]

Decl(kind, name, generic, inherits, implements, block) ==
    [kind |-> kind, extend |-> FALSE, name |-> name, generic |-> generic,
     inherits |-> inherits, implements |-> implements, directive |-> "",
     comments |-> "", block |-> block]

ID == Plain("ID")

Gen(base, args) == Str(FALSE, base, args, FALSE, 0)

TypeA == [Decl("type", "A", <<>>, <<>>, <<>>, <<Prop("p1", ID), Prop("p2", ID)>>)
             EXCEPT !.comments = "# base A"]
TypeB == Decl("type", "B", <<>>, <<"A">>, <<>>, <<Prop("p3", ID)>>)
ExtendB == [Decl("type", "B", <<>>, <<"In">>, <<>>, <<Prop("e", ID)>>) EXCEPT !.extend = TRUE]
TypeC == Decl("type", "C", <<>>, <<"B", "A">>, <<>>, <<Prop("c", ID)>>)
TypeR == Decl("type", "R", <<>>, <<"R">>, <<>>, <<Prop("r", ID)>>)
InputIn == Decl("input", "In", <<>>, <<>>, <<>>, <<Prop("x", ID)>>)

InterfaceI1 == Decl("interface", "I1", <<>>, <<>>, <<>>, <<Prop("i1", ID)>>)
InterfaceI2 == Decl("interface", "I2", <<>>, <<>>, <<"I1">>, <<Prop("i2", ID)>>)
InterfaceJ == Decl("interface", "J", <<>>, <<>>, <<"J">>, <<Prop("j", ID)>>)
TypeT == Decl("type", "T", <<>>, <<"A">>, <<"I2">>, <<Prop("t", ID)>>)
TypeU == Decl("type", "U", <<>>, <<>>, <<"I2">>, <<Prop("u", ID)>>)
TypeW == Decl("type", "W", <<>>, <<"J">>, <<"J">>, <<Prop("w", ID)>>)

TypePaged == [Decl("type", "Paged", <<"T">>, <<>>, <<>>,
                   <<Prop("items", Str(TRUE, "T", <<>>, TRUE, 0))>>)
                 EXCEPT !.comments = "# a page"]
TypeQuery == Decl("type", "Query", <<>>, <<>>, <<>>,
                  <<Prop("a", Gen("Paged", <<"Product">>)),
                    Prop("b", WithBang(Gen("Paged", <<"Product">>), 1))>>)
TypeBox == Decl("type", "Box", <<"T">>, <<>>, <<>>,
                <<Prop("page", Gen("Paged", <<"T">>)), Prop("v", Plain("T"))>>)
TypeQ2 == Decl("type", "Q2", <<>>, <<>>, <<>>, <<Prop("b", Gen("Box", <<"Product">>))>>)
AbstractAbs == Decl("abstract", "Abs", <<"T">>, <<>>, <<>>, <<Prop("v", Plain("T"))>>)
TypeQ3 == Decl("type", "Q3", <<>>, <<>>, <<>>, <<Prop("x", Gen("Abs", <<"Product">>))>>)

TypePair == Decl("type", "Pair", <<"T", "U">>, <<>>, <<>>, <<Prop("id", ID)>>)
TypePair2 == Decl("type", "Pair2", <<"T", "U">>, <<>>, <<>>,
                  <<Prop("a", Plain("T")), Prop("b", Plain("U"))>>)
TypeQ4 == Decl("type", "Q4", <<>>, <<>>, <<>>, <<Prop("p", Gen("Pair", <<"Product">>))>>)
TypeQ7 == Decl("type", "Q7", <<>>, <<>>, <<>>, <<Prop("p", Gen("Pair2", <<"Product">>))>>)
TypeQ8 == Decl("type", "Q8", <<>>, <<>>, <<>>,
               <<Prop("p", Gen("Pair2", <<"Product", "Product">>))>>)
TypeNode == Decl("type", "Node", <<"T">>, <<>>, <<>>, <<Prop("next", Gen("Node", <<"T">>))>>)
TypeQ5 == Decl("type", "Q5", <<>>, <<>>, <<>>, <<Prop("n", Gen("Node", <<"Product">>))>>)

\* extend type B inherits A @auth { e: ID }
ExtendBA == [Decl("type", "B", <<>>, <<"A">>, <<>>, <<Prop("e", ID)>>)
                EXCEPT !.extend = TRUE, !.directive = "@auth"]

\* type V inherits K { v: ID }, written before  type K inherits I2 implements I2 { k: ID }
TypeV == Decl("type", "V", <<>>, <<"K">>, <<>>, <<Prop("v", ID)>>)
TypeK == Decl("type", "K", <<>>, <<"I2">>, <<"I2">>, <<Prop("k", ID)>>)

\* a parameter  pname: type  of a property
Param(pname, type) == [pname |-> pname, type |-> type]

\* # tagged
\* type Tagged<T> implements I1 @auth {
\*     # the value
\*     v(first: ID): T
\* }
TypeTagged == [Decl("type", "Tagged", <<"T">>, <<>>, <<"I1">>,
                    <<[Prop("v", Plain("T")) EXCEPT !.params = <<Param("first", ID)>>,
                                                    !.comments = "# the value"]>>)
                  EXCEPT !.directive = "@auth", !.comments = "# tagged"]
TypeQ6 == Decl("type", "Q6", <<>>, <<>>, <<>>, <<Prop("t", Gen("Tagged", <<"Product">>))>>)

\* type Filtered<T> { f: T }  and  type List<T> { all(filter: Filtered<T>): ID }
TypeFiltered == Decl("type", "Filtered", <<"T">>, <<>>, <<>>, <<Prop("f", Plain("T"))>>)
TypeList == Decl("type", "List", <<"T">>, <<>>, <<>>,
                 <<[Prop("all", ID)
                      EXCEPT !.params = <<Param("filter", Gen("Filtered", <<"T">>))>>]>>)

\* The declarations schema texts are written from, family by family, in the
\* order they keep in a text.
Families ==
    { <<TypeA, TypeB, ExtendB, ExtendBA, TypeC, TypeR, InputIn>>,
      <<InterfaceI1, InterfaceI2, InterfaceJ, TypeA, TypeT, TypeU, TypeW>>,
      <<TypePaged, TypeQuery, TypeBox, TypeQ2, AbstractAbs, TypeQ3>>,
      <<TypePair, TypePair2, TypeQ4, TypeQ7, TypeQ8, TypeNode, TypeQ5>>,
      <<InterfaceI1, TypeTagged, TypeQ6, TypeFiltered, TypeList>>,
      <<InterfaceI1, InterfaceI2, TypeV, TypeK>> }

RECURSIVE Pick(_, _, _)
Pick(family, chosen, i) ==
    IF i > Len(family) THEN <<>>
    ELSE (IF i \in chosen THEN <<family[i]>> ELSE <<>>) \o Pick(family, chosen, i + 1)

\* every text of 1..MaxDecls declarations of one family
Schemas ==
    UNION { { Pick(f, c, 1) : c \in { c \in SUBSET (1..Len(f)) :
                                        Cardinality(c) \in 1..MaxDecls } } : f \in Families }

Modes == {"ast", "text"}

\* -------------------------------------------------------------- state
VARIABLES
    pc,                              \* where the current invocation stands
    mode,                            \* "ast": getSchemaAST, "text": transpileSchema
    graphQlSchema,                   \* the argument of the invocation
    schemaObjects,                   \* firstSchemaBreakDown
    v,                               \* the declarations resolved so far
    todo,                            \* the generic references still to instantiate
    resolvedGenericTypes,            \* the instantiations made so far
    result,                          \* what the invocation handed to its caller
    _s,
    memoizedGenericSchemaObjects,
    memoizedExtendedObject,
    memoizedInterfaceWithAncestors,
    memoizedGenericNameAliases,
    memoizedAliases,
    dirtyAtEntry                     \* some cache held an entry when the invocation began

locals == <<pc, mode, graphQlSchema, schemaObjects, v, todo, resolvedGenericTypes, result>>

caches == <<_s, memoizedGenericSchemaObjects, memoizedExtendedObject,
            memoizedInterfaceWithAncestors, memoizedGenericNameAliases, memoizedAliases>>

vars == <<locals, caches, dirtyAtEntry>>

Caches ==
    [s |-> _s, gso |-> memoizedGenericSchemaObjects, ext |-> memoizedExtendedObject,
     iwa |-> memoizedInterfaceWithAncestors, gna |-> memoizedGenericNameAliases,
     aliases |-> memoizedAliases]

SetCaches(mem) ==
    /\ _s' = mem.s
    /\ memoizedGenericSchemaObjects' = mem.gso
    /\ memoizedExtendedObject' = mem.ext
    /\ memoizedInterfaceWithAncestors' = mem.iwa
    /\ memoizedGenericNameAliases' = mem.gna
    /\ memoizedAliases' = mem.aliases

CachesEmpty(mem) ==
    /\ mem.s = <<>> /\ mem.gso = <<>> /\ mem.ext = <<>> /\ mem.iwa = <<>> /\ mem.gna = <<>>
    /\ mem.aliases.list = <<>>

Init ==
    /\ pc = "idle"
    /\ mode = "ast"
    /\ graphQlSchema = <<>>
    /\ schemaObjects = <<>>
    /\ v = <<>>
    /\ todo = <<>>
    /\ resolvedGenericTypes = <<>>
    /\ result = NoOutcome
    /\ _s = EmptyCaches.s
    /\ memoizedGenericSchemaObjects = EmptyCaches.gso
    /\ memoizedExtendedObject = EmptyCaches.ext
    /\ memoizedInterfaceWithAncestors = EmptyCaches.iwa
    /\ memoizedGenericNameAliases = EmptyCaches.gna
    /\ memoizedAliases = EmptyCaches.aliases
    /\ dirtyAtEntry = FALSE

\* the parser has run: firstSchemaBreakDown and the caches it wrote
Parsed(p) ==
    /\ SetCaches(p.mem)
    /\ schemaObjects' = p.objs

\* getSchemaAST / transpileSchema is called: resetMemory(), removeGraphMetadata
\* (which returns an annotation-free text as it is), then getSchemaBits and the
\* getSchemaObject passes of getSchemaParts.
Invoke(sch, m) ==
    /\ pc = "idle"
    /\ Parsed(ParseSchema(sch, resetMemory(Caches)))
    /\ pc' = "resolve"
    /\ mode' = m
    /\ graphQlSchema' = sch
    /\ v' = <<>>
    /\ todo' = <<>>
    /\ resolvedGenericTypes' = <<>>
    /\ result' = NoOutcome
    /\ dirtyAtEntry' = ~CachesEmpty(Caches)

\* getObjWithExtensions has returned r, or thrown r.err
Resolved(r) ==
    /\ memoizedExtendedObject' = r.ext
    /\ memoizedInterfaceWithAncestors' = r.iwa
    /\ IF r.err # NoError
       THEN /\ pc' = "failed"
            /\ result' = Outcome("error", <<>>, r.err)
            /\ v' = v
       ELSE /\ pc' = "resolve"
            /\ result' = result
            /\ v' = Append(v, r.obj)

\* The next declaration goes through getObjWithExtensions; an error thrown
\* there ends the invocation with the caches as they are.
ResolveNext ==
    /\ pc = "resolve"
    /\ Len(v) < Len(schemaObjects)
    /\ Resolved(getObjWithExtensions(schemaObjects[Len(v) + 1], schemaObjects,
                                     memoizedExtendedObject,
                                     memoizedInterfaceWithAncestors, 1))
    /\ UNCHANGED <<mode, graphQlSchema, schemaObjects, todo, resolvedGenericTypes,
                   _s, memoizedGenericSchemaObjects, memoizedGenericNameAliases,
                   memoizedAliases, dirtyAtEntry>>

\* getCommentsBits has read the text e through the escaper
Commented(e) ==
    /\ _s' = e.s
    /\ v' = WithComments(v, e.val.escaped.decls)

\* Every declaration is resolved: addComments on each (getCommentsBits reads
\* the text through the escaper again), then the generic references recorded
\* by the parser are listed for instantiation.
AddComments ==
    /\ pc = "resolve"
    /\ Len(v) = Len(schemaObjects)
    /\ Commented(escapeGraphQlSchemaPlus(RawText(graphQlSchema), _s))
    /\ todo' = ConcreteGenerics(memoizedGenericSchemaObjects)
    /\ pc' = "generics"
    /\ UNCHANGED <<mode, graphQlSchema, schemaObjects, resolvedGenericTypes, result,
                   memoizedGenericSchemaObjects, memoizedExtendedObject,
                   memoizedInterfaceWithAncestors, memoizedGenericNameAliases,
                   memoizedAliases, dirtyAtEntry>>

\* createNewSchemaObjectFromGeneric has returned, or thrown r.err
InstantiatedNext(r) ==
    /\ SetCaches(r.mem)
    /\ resolvedGenericTypes' = r.memo
    /\ IF r.err # NoError
       THEN /\ pc' = "failed"
            /\ result' = Outcome("error", <<>>, r.err)
            /\ todo' = todo
       ELSE /\ pc' = "generics"
            /\ result' = result
            /\ todo' = Tail(todo)

\* The next generic reference goes through createNewSchemaObjectFromGeneric.
InstantiateNext ==
    /\ pc = "generics"
    /\ todo # <<>>
    /\ InstantiatedNext(InstantiateOne(Head(todo), v, resolvedGenericTypes, Caches))
    /\ UNCHANGED <<mode, graphQlSchema, schemaObjects, v, dirtyAtEntry>>

\* The value is assembled, resetMemory() runs and the value is returned.
Finish ==
    /\ pc = "generics"
    /\ todo = <<>>
    /\ result' = Value(mode, v, resolvedGenericTypes)
    /\ SetCaches(resetMemory(Caches))
    /\ pc' = "done"
    /\ UNCHANGED <<mode, graphQlSchema, schemaObjects, v, todo, resolvedGenericTypes,
                   dirtyAtEntry>>

\* The caller has the value or the error; the module waits for the next call.
Return ==
    /\ pc \in {"done", "failed"}
    /\ pc' = "idle"
    /\ mode' = "ast"
    /\ graphQlSchema' = <<>>
    /\ schemaObjects' = <<>>
    /\ v' = <<>>
    /\ todo' = <<>>
    /\ resolvedGenericTypes' = <<>>
    /\ result' = NoOutcome
    /\ dirtyAtEntry' = FALSE
    /\ UNCHANGED caches

Next ==
    \/ \E sch \in Schemas : \E m \in Modes : Invoke(sch, m)
    \/ ResolveNext
    \/ AddComments
    \/ InstantiateNext
    \/ Finish
    \/ Return

Spec == Init /\ [][Next]_vars

\* ------------------------------------------------------------ properties
\* An invocation has ended: its caller holds a value or an error.
Ended == pc \in {"done", "failed"}

\* the names of the declarations in objs are pairwise distinct
UniqueNames(objs) ==
    \A i, j \in 1..Len(objs) : objs[i].name = objs[j].name => i = j

\* the set of the elements of a sequence
Range(s) == {s[i] : i \in 1..Len(s)}

\* the names a declaration named n lists under 'inherits' / 'implements'
InheritsOf(objs, n) ==
    UNION {Range(objs[i].inherits) : i \in {i \in 1..Len(objs) : objs[i].name = Plain(n)}}

ImplementsOf(objs, n) ==
    UNION {Range(objs[i].implements) : i \in {i \in 1..Len(objs) : objs[i].name = Plain(n)}}

RECURSIVE InheritsReach(_, _)
\* every name reached from the names S along 'inherits', S included
InheritsReach(objs, S) ==
    IF (UNION {InheritsOf(objs, n) : n \in S}) \subseteq S THEN S
    ELSE InheritsReach(objs, S \cup UNION {InheritsOf(objs, n) : n \in S})

RECURSIVE ImplementsReach(_, _)
\* every name reached from the names S along 'implements', S included
ImplementsReach(objs, S) ==
    IF (UNION {ImplementsOf(objs, n) : n \in S}) \subseteq S THEN S
    ELSE ImplementsReach(objs, S \cup UNION {ImplementsOf(objs, n) : n \in S})

\* a declaration of objs is its own ancestor
InheritanceCycle(objs) ==
    \E i \in 1..Len(objs) :
        objs[i].name.base \in InheritsReach(objs, Range(objs[i].inherits))

\* a declaration of objs implements, directly or through other interfaces, an
\* interface that (transitively) implements itself
ImplementsCycle(objs) ==
    \E i \in 1..Len(objs) :
        \E n \in ImplementsReach(objs, Range(objs[i].implements)) :
            n \in ImplementsReach(objs, ImplementsOf(objs, n))

RECURSIVE MergedInListOrder(_, _)
\* the merge the inheritance rule describes: the merged properties of each
\* ancestor in the order of obj's inherits list, then obj's own properties
MergedInListOrder(obj, objs) ==
    Flatten([j \in 1..Len(obj.inherits) |->
                MergedInListOrder(NamedObjects(objs, obj.inherits[j])[1], objs)])
        \o obj.blockProps

\* C1: in a result, the properties of a declaration with an inherits list are
\* the merged properties of its ancestors in the order of the inherits list,
\* followed by its own properties, nothing removed.  (Stated for texts whose
\* declarations have pairwise distinct names.)
MergeFollowsInheritsList ==
    (pc = "done" /\ UniqueNames(schemaObjects)) =>
        \A i \in 1..Len(v) :
            schemaObjects[i].inherits # <<>> =>
                v[i].blockProps = MergedInListOrder(schemaObjects[i], schemaObjects)

\* every name a declaration of objs implements is declared in objs as an
\* interface
ImplementedAreInterfaces(objs) ==
    \A i \in 1..Len(objs) : \A n \in Range(objs[i].implements) :
        \E k \in 1..Len(objs) : objs[k].name = Plain(n) /\ objs[k].type = "INTERFACE"

\* C2: in a result, the implements list of every declaration, with or without
\* an inherits list, holds every interface reached from its declared
\* interfaces along 'implements', each once.  (Stated for texts that declare
\* every implemented name as an interface.)
ImplementsIsClosure ==
    (pc = "done" /\ ImplementedAreInterfaces(schemaObjects)) =>
        \A i \in 1..Len(v) :
            /\ ImplementsReach(schemaObjects, Range(schemaObjects[i].implements))
                   \subseteq Range(v[i].implements)
            /\ \A j, k \in 1..Len(v[i].implements) :
                   v[i].implements[j] = v[i].implements[k] => j = k

\* C3: an invocation on a text whose inheritance graph has a cycle ends with
\* an explicit error, never by exhausting the call stack.
InheritanceCycleIsReported ==
    (Ended /\ InheritanceCycle(schemaObjects)) =>
        /\ result.status = "error"
        /\ result.error # <<RangeError>>

\* C4: an invocation on a text where a declaration reaches a cycle of the
\* implements graph ends with an explicit error, never by exhausting the call
\* stack.
ImplementsCycleIsReported ==
    (Ended /\ ImplementsCycle(schemaObjects)) =>
        /\ result.status = "error"
        /\ result.error # <<RangeError>>

\* the uses  name: Template<Concrete>  written in the declarations that have
\* no generic parameters: <<i, j>> is property j of declaration i
ConcreteUses(objs) ==
    {u \in (1..Len(objs)) \X (1..3) :
        /\ objs[u[1]].genericType = <<>>
        /\ u[2] <= Len(objs[u[1]].blockProps)
        /\ objs[u[1]].blockProps[u[2]].details.result.originName.args # <<>>}

\* the type expression written at the use u
UseType(objs, u) == objs[u[1]].blockProps[u[2]].details.result.originName

\* the default alias of the use u: Paged<Product> and Paged<Product>! -> PagedProduct
UseAlias(objs, u) == genericDefaultNameAlias([UseType(objs, u) EXCEPT !.bang = 0])

\* C5: the text transpileSchema returns holds no declaration with generic
\* parameters and no abstract declaration, and for every use of a template
\* with concrete arguments in a declaration without generic parameters it
\* holds the declaration named by the alias.
TextHoldsOnlyConcreteTypes ==
    (pc = "done" /\ mode = "text") =>
        /\ \A k \in 1..Len(result.value) : result.value[k].name.args = <<>>
        /\ \A k \in 1..Len(result.value) : result.value[k].keyword # "abstract"
        /\ \A u \in ConcreteUses(schemaObjects) :
               \E k \in 1..Len(result.value) :
                   result.value[k].name = UseAlias(schemaObjects, u)

\* C6: within one invocation no two synthesized declarations are written
\* under the same alias name: a reference with a trailing '!' reuses the
\* declaration synthesized for the reference without it.
OneInstantiationPerAlias ==
    \A i, j \in 1..Len(resolvedGenericTypes) :
        resolvedGenericTypes[i].v.stringObj.name = resolvedGenericTypes[j].v.stringObj.name
            => i = j

\* a use of a template with a number of arguments that differs from the
\* number of the template's generic parameters
ArityMismatch(objs) ==
    \E u \in ConcreteUses(objs) :
        /\ BaseGenObjs(UseType(objs, u), objs) # <<>>
        /\ Len(BaseGenObjs(UseType(objs, u), objs)[1].genericType)
               # Len(UseType(objs, u).args)

\* C7: an invocation on a text that uses a template with the wrong number of
\* arguments ends with an error, whatever the template's properties are.
ArityMismatchAborts ==
    (Ended /\ ArityMismatch(schemaObjects)) => result.status = "error"

\* C8: what an invocation hands to its caller, value or error, is what the
\* same call gives on empty caches, whatever earlier invocations left behind.
ResultIndependentOfEarlierInvocations ==
    Ended => result = RunInvocation(graphQlSchema, mode, EmptyCaches)

\* C8, the case: an invocation that began on caches an earlier, failed
\* invocation had filled has resolved a declaration with an inherits list and
\* returned its value.
ReturnedAfterDirtyEntry ==
    /\ pc = "done"
    /\ dirtyAtEntry
    /\ result.status = "value"
    /\ \E i \in 1..Len(schemaObjects) : schemaObjects[i].inherits # <<>>

\* C9: when an invocation has ended, with a value or with an error, every
\* cache is empty.
CachesEmptyAfterInvocation == Ended => CachesEmpty(Caches)

\* C10: an invocation returns a value only if every declaration inherits from
\* declarations of a compatible kind: a TYPE from a TYPE or an INTERFACE,
\* every other kind from its own kind.
InheritedKindsCompatible ==
    pc = "done" =>
        \A i \in 1..Len(schemaObjects) :
            \A j \in 1..Len(schemaObjects[i].inherits) :
                \A k \in 1..Len(schemaObjects) :
                    schemaObjects[k].name = Plain(schemaObjects[i].inherits[j])
                        => inheritingIsAllowed(schemaObjects[i], schemaObjects[k])

\* C11: an invocation on a text where a declaration, with or without an
\* inherits list, implements a name that no interface of the text declares
\* ends with an error.
UndeclaredInterfaceAborts ==
    (Ended /\ ~ImplementedAreInterfaces(schemaObjects)) => result.status = "error"

\* the sequence s ends with the sequence t
EndsWith(s, t) ==
    /\ Len(t) <= Len(s)
    /\ \A j \in 1..Len(t) : s[Len(s) - Len(t) + j] = t[j]

\* C12: in a result, every declaration with an inherits list, a base
\* declaration and an extend fragment of the same kind and name alike, is
\* resolved to an entity whose properties end with that declaration's own
\* properties: none is given the resolved form of another declaration.
FragmentsStayDistinct ==
    pc = "done" =>
        \A i \in 1..Len(v) :
            schemaObjects[i].inherits # <<>> =>
                EndsWith(v[i].blockProps, schemaObjects[i].blockProps)

\* the instantiation e carries what the template carries: parsed is the
\* template as it was parsed, resolved is the template after resolution and
\* addComments
CarriesTemplate(e, parsed, resolved) ==
    /\ e.obj.comments = resolved.comments
    /\ e.obj.directive = parsed.directive
    /\ e.obj.implements = resolved.implements
    /\ e.stringObj.comments = resolved.comments
    /\ e.stringObj.directive = parsed.directive
    /\ e.stringObj.implements = resolved.implements

\* C13: the declaration synthesized for a use of a template with concrete
\* arguments is named by the alias of the use and carries the template's
\* comments, directive and implements list, in its object and in its text.
InstantiationCarriesTemplate ==
    pc = "done" =>
        \A u \in ConcreteUses(schemaObjects) :
            \A i \in 1..Len(resolvedGenericTypes) :
                \A t \in 1..Len(schemaObjects) :
                    ( /\ BaseGenObjs(UseType(schemaObjects, u), schemaObjects) # <<>>
                      /\ BaseGenObjs(UseType(schemaObjects, u), schemaObjects)[1]
                             = schemaObjects[t]
                      /\ resolvedGenericTypes[i].k = UseAlias(schemaObjects, u) )
                    => /\ resolvedGenericTypes[i].v.obj.name = UseAlias(schemaObjects, u)
                       /\ resolvedGenericTypes[i].v.stringObj.name
                              = UseAlias(schemaObjects, u)
                       /\ CarriesTemplate(resolvedGenericTypes[i].v, schemaObjects[t],
                                          v[t])

\* C14: an invocation that ends while instantiating a generic reference ends
\* with an error of the schema, never with the exhaustion of the call stack
\* by a recursion that does not end.
InstantiationTerminates ==
    (pc = "failed" /\ todo # <<>>) => result.error # <<RangeError>>

\* the type expression ref is written in the declaration d of the text, as
\* the type of a property or of a parameter of a property
WrittenIn(d, ref) ==
    \E j \in 1..Len(d.block) :
        \/ [d.block[j].type EXCEPT !.bang = 0] = [ref EXCEPT !.bang = 0]
        \/ \E k \in 1..Len(d.block[j].params) :
               [d.block[j].params[k].type EXCEPT !.bang = 0] = [ref EXCEPT !.bang = 0]

\* the generic references of the text that are written in a template with one
\* of the template's own generic parameters among their arguments
DeferredReferences(sch) ==
    {ref \in UNION {{sch[t].block[j].type : j \in 1..Len(sch[t].block)}
                        \cup UNION {{sch[t].block[j].params[k].type :
                                         k \in 1..Len(sch[t].block[j].params)} :
                                    j \in 1..Len(sch[t].block)} :
                    t \in 1..Len(sch)} :
        /\ ref.args # <<>>
        /\ \E t \in 1..Len(sch) :
               /\ WrittenIn(sch[t], ref)
               /\ Range(ref.args) \cap Range(sch[t].generic) # {}}

\* C15: a generic reference written in a template with one of the template's
\* own generic parameters among its arguments, as the type of a property or of
\* a parameter, is never instantiated on its own: no declaration is
\* synthesized under the alias of the reference as it is written.
DeferredUntilParentInstantiated ==
    \A ref \in DeferredReferences(graphQlSchema) :
        \A i \in 1..Len(resolvedGenericTypes) :
            resolvedGenericTypes[i].v.stringObj.name
                # genericDefaultNameAlias([ref EXCEPT !.bang = 0])

\* C16: in a result, every declaration with an inherits list keeps in
\* originalBlockProps the properties written in its own block, before the
\* merge, also when it has an implements list as well.
OriginalBlockPropsAreOwn ==
    (pc = "done" /\ UniqueNames(schemaObjects)) =>
        \A i \in 1..Len(v) :
            schemaObjects[i].inherits # <<>> =>
                v[i].originalBlockProps = schemaObjects[i].blockProps

\* C17: in a result, every declaration has the kind, the name, the generic
\* parameters, the extend flag and the directive it was parsed with, whether
\* or not it has an inherits or an implements list; transpileSchema writes
\* the extend prefix and the directive from these.
ResolutionKeepsHeader ==
    (pc = "done" /\ UniqueNames(schemaObjects)) =>
        \A i \in 1..Len(v) :
            /\ v[i].type = schemaObjects[i].type
            /\ v[i].name = schemaObjects[i].name
            /\ v[i].genericType = schemaObjects[i].genericType
            /\ v[i].extend = schemaObjects[i].extend
            /\ v[i].directive = schemaObjects[i].directive

\* C18: in a result, every declaration with an inherits list has the
\* properties and the implements closure that resolving it first, on empty
\* memos, gives: also a declaration that was resolved before as an ancestor
\* of another one.
MemoizedFormIsFreshForm ==
    (pc = "done" /\ UniqueNames(schemaObjects)) =>
        \A i \in 1..Len(v) :
            schemaObjects[i].inherits # <<>> =>
                /\ v[i].blockProps
                       = getObjWithExtensions(schemaObjects[i], schemaObjects,
                                              <<>>, <<>>, 1).obj.blockProps
                /\ v[i].implements
                       = getObjWithExtensions(schemaObjects[i], schemaObjects,
                                              <<>>, <<>>, 1).obj.implements

\* the property p of an instantiation keeps what the property q of the
\* template has, but for the result type
KeepsProperty(p, q) ==
    /\ p.details.name = q.details.name
    /\ p.comments = q.comments
    /\ p.details.params = q.details.params
    /\ p.value.name = q.value.name
    /\ p.value.params = q.value.params

\* the properties of the instantiation e are those of the template tpl, one
\* for one and in the same order
KeepsProperties(e, tpl) ==
    /\ Len(e.obj.blockProps) = Len(tpl.blockProps)
    /\ \A j \in 1..Len(tpl.blockProps) :
           /\ KeepsProperty(e.obj.blockProps[j], tpl.blockProps[j])
           /\ ~isTypeGeneric(tpl.blockProps[j].details.result.name, tpl.genericType)
                  => e.obj.blockProps[j] = tpl.blockProps[j]

\* C19: the declaration synthesized for a use of a template has the
\* template's properties, one for one and in the same order: each keeps the
\* name, the comments and the parameters of the template's property, and one
\* whose result type has no generic parameter of the template is the
\* template's property as it is.
InstantiationKeepsProperties ==
    pc = "done" =>
        \A u \in ConcreteUses(schemaObjects) :
            \A i \in 1..Len(resolvedGenericTypes) :
                \A t \in 1..Len(schemaObjects) :
                    ( /\ BaseGenObjs(UseType(schemaObjects, u), schemaObjects) # <<>>
                      /\ BaseGenObjs(UseType(schemaObjects, u), schemaObjects)[1]
                             = schemaObjects[t]
                      /\ resolvedGenericTypes[i].k = UseAlias(schemaObjects, u) )
                    => KeepsProperties(resolvedGenericTypes[i].v, v[t])

====
